---- MODULE Spec2Model ----
(***************************************************************************)
(* Model of the bootcamp controller (src/controllers/bootcamps.js) and of  *)
(* the process-level error handling of src/server.js.                      *)
(*                                                                         *)
(* Part 1: the request handlers getBootcamp, createBootcamp,               *)
(* updateBootcamp, deleteBootcamp and bootcampPhotoUpload, run             *)
(* concurrently.  One action is one resumption of a handler: the store or  *)
(* file operation it was suspended on takes effect atomically and the      *)
(* synchronous code after it runs up to the next suspension or the end.    *)
(*                                                                         *)
(* Part 2: the listing handler kept in the controller (lines 214-294):     *)
(* filter translation, pagination, count query and envelope.               *)
(***************************************************************************)
EXTENDS Integers, Sequences, FiniteSets, TLC

VARIABLES store, nextId, reqs, disk, server, started, lst

vars == <<store, nextId, reqs, disk, server, started, lst>>

(***************************************************************************)
(* Bounds                                                                  *)
(***************************************************************************)
\* number of bootcamp documents ever created in one behaviour
MaxBootcamps == 2
\* the configured upload threshold process.env.MAX_UPLOAD, in bytes
MAX_UPLOAD == 2
\* requests received in one behaviour
MaxRequests == 3

\* requests that can be in flight at the same time
Slots == {"r1", "r2"}

None == "none"

(***************************************************************************)
(* Users: req.user as set by the authentication guard                      *)
(***************************************************************************)
Users == {"u1", "u2", "adm"}

role(u) == IF u = "adm" THEN "admin" ELSE "publisher"

Ids == 1..MaxBootcamps

DefaultPhoto == <<"no-photo.jpg">>

\* request bodies: the fields of a bootcamp a body carries; None is a field
\* the body does not carry
CreateBodies == [user : Users \cup {None}, name : {"x"}, averageCost : {5}]

UpdateBodies == [user : Users \cup {None}]

\* req.files of bootcampPhotoUpload: null, a file under the field "file",
\* or files under another field only
NoFiles == [kind |-> "null", mimetype |-> <<None, None>>, size |-> 0, ext |-> None]

OtherField == [kind |-> "other", mimetype |-> <<None, None>>, size |-> 0, ext |-> None]

Mimetypes == {<<"image", "jpeg">>, <<"text", "plain">>}

Exts == {".jpg"}

Sizes == {MAX_UPLOAD, MAX_UPLOAD + 1}

Uploads == [kind : {"file"}, mimetype : Mimetypes, size : Sizes, ext : Exts]

Files == {NoFiles, OtherField} \cup Uploads

(***************************************************************************)
(* A request slot                                                          *)
(***************************************************************************)
NoBootcamp == [st |-> "unset", user |-> None]

IdleReq == [op |-> "idle", pc |-> "idle", user |-> None, id |-> 0,
            files |-> NoFiles, bootcamp |-> NoBootcamp,
            authz |-> "unset", status |-> 0, wrote |-> FALSE,
            mvCalled |-> FALSE, fileName |-> <<>>]

(***************************************************************************)
(* Error boundary                                                          *)
(***************************************************************************)
\* new ErrorResponse(message, statusCode)
ErrorResponse(statusCode) == [kind |-> "ErrorResponse", statusCode |-> statusCode]

\* an exception that is no ErrorResponse: a TypeError, a store fault
TypeError == [kind |-> "TypeError", statusCode |-> 0]

StoreError == [kind |-> "StoreError", statusCode |-> 0]

\* the boundary handler mounted at server.js:78: the error's status code,
\* 500 for an error that carries none
errorHandler(err) == IF err.statusCode # 0 THEN err.statusCode ELSE 500

\* process.on('unhandledRejection'): server.close(() => process.exit(1))
unhandledRejection(s) == IF s = "listening" THEN "closing" ELSE s

(***************************************************************************)
(* The store                                                               *)
(***************************************************************************)
\* Bootcamp.findById(id): the document, or null
findById(id) ==
    IF id \in DOMAIN store
    THEN [st |-> "doc", user |-> store[id].user]
    ELSE [st |-> "null", user |-> None]

\* Bootcamp.findOne({ user: u }): some document of that user, or null
findOne(u) == \E i \in DOMAIN store : store[i].user = u

\* Bootcamp.findByIdAndUpdate(id, fields): the fields present in `fields`
\* overwrite the document's; a missing document leaves the store unchanged
applyUpdate(doc, fields) ==
    [f \in DOMAIN doc |->
        IF f \in DOMAIN fields /\ fields[f] # None THEN fields[f] ELSE doc[f]]

findByIdAndUpdate(id, fields) ==
    IF id \in DOMAIN store
    THEN [store EXCEPT ![id] = applyUpdate(store[id], fields)]
    ELSE store

\* Bootcamp.create(body)
create(id, body) ==
    [i \in DOMAIN store \cup {id} |->
        IF i = id
        THEN [user |-> body.user, name |-> body.name,
              averageCost |-> body.averageCost, photo |-> DefaultPhoto]
        ELSE store[i]]

\* bootcamp.remove()
remove(id) == [i \in DOMAIN store \ {id} |-> store[i]]

(***************************************************************************)
(* The ownership gates, as each handler writes them                        *)
(***************************************************************************)
\* updateBootcamp, line 69: req.userrole is a property no middleware sets,
\* so it is undefined and the second conjunct is always true
userrole(u) == "undefined"

updateGateDenies(owner, u) == owner # u /\ userrole(u) # "admin"

\* deleteBootcamp, line 96
deleteGateDenies(owner, u) == owner # u /\ role(u) # "admin"

\* bootcampPhotoUpload, line 155
photoGateDenies(owner, u) == owner # u /\ role(u) # "admin"

(***************************************************************************)
(* Photo upload checks                                                     *)
(***************************************************************************)
\* file.mimetype.startsWith('image')
IsImage(file) == file.mimetype[1] = "image"

\* the size check with its comparison turned round
TooLargeInverted(file) == file.size < MAX_UPLOAD

\* file.size > process.env.MAX_UPLOAD
TooLarge(file) == file.size > MAX_UPLOAD

\* `photo_${bootcamp._id}${path.parse(file.name).ext}`
photoName(id, file) == <<"photo_", id, file.ext>>

(***************************************************************************)
(* Slot updates                                                            *)
(***************************************************************************)
Serving == server # "exited"

Set(r, new) == reqs' = [reqs EXCEPT ![r] = new]

\* next(err): the boundary sends the error response; the handler is over
Fail(q, err) == [q EXCEPT !.status = errorHandler(err), !.pc = "done"]

\* res.status(s).json(...) as the handler's last statement
Send(q, s) == [q EXCEPT !.status = s, !.pc = "done"]

\* a slot takes a new request when it holds none or a finished one
Free(r) ==
    /\ server = "listening" /\ reqs[r].pc \in {"idle", "done"}
    /\ started < MaxRequests
    /\ started' = started + 1

InFlightCreates == Cardinality({r \in Slots : reqs[r].op = "create" /\ reqs[r].pc # "done"})

(***************************************************************************)
(* Arrival of a request: the handler runs up to its first await            *)
(***************************************************************************)
StartGet(r) ==
    /\ Free(r)
    /\ \E id \in Ids :
         Set(r, [IdleReq EXCEPT !.op = "get", !.pc = "findById", !.id = id])
    /\ UNCHANGED <<store, nextId, disk, server, lst>>

\* line 38: req.body.user = req.user.id, whatever the body carried
StartCreate(r) ==
    /\ Free(r)
    /\ nextId + InFlightCreates <= MaxBootcamps
    /\ \E u \in Users :
         Set(r, [IdleReq EXCEPT !.op = "create", !.pc = "findOne", !.user = u])
    /\ UNCHANGED <<store, nextId, disk, server, lst>>

StartUpdate(r) ==
    /\ Free(r)
    /\ \E u \in Users, id \in Ids :
         Set(r, [IdleReq EXCEPT !.op = "update", !.pc = "findById", !.user = u,
                                !.id = id])
    /\ UNCHANGED <<store, nextId, disk, server, lst>>

StartDelete(r) ==
    /\ Free(r)
    /\ \E u \in Users, id \in Ids :
         Set(r, [IdleReq EXCEPT !.op = "delete", !.pc = "findById", !.user = u,
                                !.id = id])
    /\ UNCHANGED <<store, nextId, disk, server, lst>>

StartPhoto(r) ==
    /\ Free(r)
    /\ \E u \in Users, id \in Ids :
         Set(r, [IdleReq EXCEPT !.op = "photo", !.pc = "findById", !.user = u,
                                !.id = id])
    /\ UNCHANGED <<store, nextId, disk, server, lst>>

(***************************************************************************)
(* getBootcamp, lines 21-31                                                *)
(***************************************************************************)
getBootcamp(r) ==
    /\ Serving /\ reqs[r].op = "get" /\ reqs[r].pc = "findById"
    /\ \E ok \in BOOLEAN :
         LET q == reqs[r]
             b == findById(q.id)
         IN IF ~ok THEN Set(r, Fail(q, StoreError))
            ELSE IF b.st = "null"
                 THEN Set(r, Fail([q EXCEPT !.bootcamp = b], ErrorResponse(404)))
                 ELSE Set(r, Send([q EXCEPT !.bootcamp = b], 200))
    /\ UNCHANGED <<store, nextId, disk, server, started, lst>>

(***************************************************************************)
(* createBootcamp, lines 36-56                                             *)
(***************************************************************************)
\* resumption after await Bootcamp.findOne (line 41)
createBootcampCheck(r) ==
    /\ Serving /\ reqs[r].op = "create" /\ reqs[r].pc = "findOne"
    /\ \E ok \in BOOLEAN :
         LET q == reqs[r]
             publishedBootcamp == findOne(q.user)
         IN IF ~ok THEN Set(r, Fail(q, StoreError))
            ELSE IF publishedBootcamp /\ role(q.user) # "admin"
                 THEN Set(r, Fail(q, ErrorResponse(400)))
                 ELSE Set(r, [q EXCEPT !.pc = "create"])
    /\ UNCHANGED <<store, nextId, disk, server, started, lst>>

\* resumption after await Bootcamp.create (line 48)
createBootcamp(r) ==
    /\ Serving /\ reqs[r].op = "create" /\ reqs[r].pc = "create"
    /\ \E ok \in BOOLEAN, body \in CreateBodies :
         LET q == reqs[r]
             \* line 38: req.body.user = req.user.id
             reqBody == [body EXCEPT !.user = q.user]
         IN IF ~ok
            THEN /\ Set(r, Fail(q, StoreError))
                 /\ UNCHANGED <<store, nextId>>
            ELSE /\ store' = create(nextId, reqBody)
                 /\ nextId' = nextId + 1
                 /\ Set(r, Send([q EXCEPT !.id = nextId, !.wrote = TRUE], 201))
    /\ UNCHANGED <<disk, server, started, lst>>

(***************************************************************************)
(* updateBootcamp, lines 61-81                                             *)
(***************************************************************************)
\* resumption after await Bootcamp.findById (line 62)
updateBootcampGate(r) ==
    /\ Serving /\ reqs[r].op = "update" /\ reqs[r].pc = "findById"
    /\ \E ok \in BOOLEAN :
         LET q == reqs[r]
             b == findById(q.id)
             q1 == [q EXCEPT !.bootcamp = b]
         IN IF ~ok THEN Set(r, Fail(q, StoreError))
            ELSE IF b.st = "null" THEN Set(r, Fail(q1, ErrorResponse(404)))
            ELSE IF updateGateDenies(b.user, q.user)
                 THEN Set(r, Fail([q1 EXCEPT !.authz = "denied"], ErrorResponse(401)))
                 ELSE Set(r, [q1 EXCEPT !.authz = "granted", !.pc = "findByIdAndUpdate"])
    /\ UNCHANGED <<store, nextId, disk, server, started, lst>>

\* resumption after await Bootcamp.findByIdAndUpdate (line 73)
updateBootcamp(r) ==
    /\ Serving /\ reqs[r].op = "update" /\ reqs[r].pc = "findByIdAndUpdate"
    /\ \E ok \in BOOLEAN, body \in UpdateBodies :
         LET q == reqs[r]
         IN IF ~ok
            THEN /\ Set(r, Fail(q, StoreError))
                 /\ UNCHANGED store
            ELSE /\ store' = findByIdAndUpdate(q.id, body)
                 /\ Set(r, Send([q EXCEPT !.wrote = TRUE], 200))
    /\ UNCHANGED <<nextId, disk, server, started, lst>>

(***************************************************************************)
(* deleteBootcamp, lines 87-111                                            *)
(***************************************************************************)
\* resumption after await Bootcamp.findById (line 88); bootcamp.remove() is
\* started at line 100 and not awaited: the response is sent at once
deleteBootcampGate(r) ==
    /\ Serving /\ reqs[r].op = "delete" /\ reqs[r].pc = "findById"
    /\ \E ok \in BOOLEAN :
         LET q == reqs[r]
             b == findById(q.id)
             q1 == [q EXCEPT !.bootcamp = b]
         IN IF ~ok THEN Set(r, Fail(q, StoreError))
            ELSE IF b.st = "null" THEN Set(r, Fail(q1, ErrorResponse(404)))
            ELSE IF deleteGateDenies(b.user, q.user)
                 THEN Set(r, Fail([q1 EXCEPT !.authz = "denied"], ErrorResponse(401)))
                 ELSE Set(r, [q1 EXCEPT !.authz = "granted", !.status = 200,
                                        !.pc = "remove"])
    /\ UNCHANGED <<store, nextId, disk, server, started, lst>>

\* the remove() started at line 100 settles; its promise has no handler, so
\* a rejection is an unhandled rejection of the process
deleteBootcampRemove(r) ==
    /\ Serving /\ reqs[r].op = "delete" /\ reqs[r].pc = "remove"
    /\ \E ok \in BOOLEAN :
         LET q == reqs[r]
         IN IF ~ok
            THEN /\ Set(r, [q EXCEPT !.pc = "done"])
                 /\ server' = unhandledRejection(server)
                 /\ UNCHANGED store
            ELSE /\ store' = remove(q.id)
                 /\ Set(r, [q EXCEPT !.pc = "done", !.wrote = TRUE])
                 /\ UNCHANGED server
    /\ UNCHANGED <<nextId, disk, started, lst>>

(***************************************************************************)
(* bootcampPhotoUpload, lines 147-196                                      *)
(***************************************************************************)
\* resumption after await Bootcamp.findById (line 148), up to file.mv; the
\* body of an upload carries no fields, so the projection req.body passed to
\* findById selects the whole document; req.files is first read here
bootcampPhotoUploadChecks(r) ==
    /\ Serving /\ reqs[r].op = "photo" /\ reqs[r].pc = "findById"
    /\ \E ok \in BOOLEAN, files \in Files :
         LET q == [reqs[r] EXCEPT !.files = files]
             b == findById(q.id)
             q1 == [q EXCEPT !.bootcamp = b]
             q2 == [q1 EXCEPT !.authz = "granted"]
             file == q.files
         IN IF ~ok THEN Set(r, Fail(q, StoreError))
            \* lines 150-152 build the 404 error and drop it; line 155 then
            \* reads bootcamp.user of null
            ELSE IF b.st = "null" THEN Set(r, Fail(q1, TypeError))
            ELSE IF photoGateDenies(b.user, q.user)
                 THEN Set(r, Fail([q1 EXCEPT !.authz = "denied"], ErrorResponse(401)))
            ELSE IF q.files.kind = "null" THEN Set(r, Fail(q2, ErrorResponse(400)))
            \* req.files.file is undefined: file.mimetype throws
            ELSE IF q.files.kind = "other" THEN Set(r, Fail(q2, TypeError))
            ELSE IF ~IsImage(file) THEN Set(r, Fail(q2, ErrorResponse(400)))
            ELSE IF TooLarge(file) THEN Set(r, Fail(q2, ErrorResponse(400)))
            ELSE Set(r, [q2 EXCEPT !.fileName = photoName(q.id, file),
                                   !.mvCalled = TRUE, !.pc = "mv"])
    /\ UNCHANGED <<store, nextId, disk, server, started, lst>>

\* the file.mv callback (lines 179-185), up to await findByIdAndUpdate
bootcampPhotoUploadMv(r) ==
    /\ Serving /\ reqs[r].op = "photo" /\ reqs[r].pc = "mv"
    /\ \E err \in BOOLEAN :
         LET q == reqs[r]
         IN IF err
            THEN /\ Set(r, Fail(q, ErrorResponse(500)))
                 /\ UNCHANGED disk
            ELSE /\ disk' = disk \cup {q.fileName}
                 /\ Set(r, [q EXCEPT !.pc = "photoUpdate"])
    /\ UNCHANGED <<store, nextId, server, started, lst>>

\* resumption of the callback after await findByIdAndUpdate (line 185); the
\* callback's promise has no handler, so a rejection is an unhandled
\* rejection of the process and no response is ever sent
bootcampPhotoUploadSave(r) ==
    /\ Serving /\ reqs[r].op = "photo" /\ reqs[r].pc = "photoUpdate"
    /\ \E ok \in BOOLEAN :
         LET q == reqs[r]
         IN IF ~ok
            THEN /\ Set(r, [q EXCEPT !.pc = "hung"])
                 /\ server' = unhandledRejection(server)
                 /\ UNCHANGED store
            ELSE /\ store' = findByIdAndUpdate(q.id, [photo |-> q.fileName])
                 /\ Set(r, Send([q EXCEPT !.wrote = TRUE], 200))
                 /\ UNCHANGED server
    /\ UNCHANGED <<nextId, disk, started, lst>>

(***************************************************************************)
(* Connections and the process                                             *)
(***************************************************************************)
\* the client of a request that never gets a response gives up
ClientTimeout(r) ==
    /\ Serving /\ reqs[r].pc = "hung"
    /\ Set(r, [reqs[r] EXCEPT !.pc = "done"])
    /\ UNCHANGED <<store, nextId, disk, server, started, lst>>

\* server.close's callback, server.js:91: once no connection is open any
\* more, process.exit(1)
Exit ==
    /\ server = "closing"
    /\ \A r \in Slots : reqs[r].op = "idle" \/ reqs[r].status # 0 \/ reqs[r].pc = "done"
    /\ server' = "exited"
    /\ UNCHANGED <<store, nextId, reqs, disk, started, lst>>

(***************************************************************************)
(* Part 2: the listing handler, lines 218-294                              *)
(*                                                                         *)
(* A string is a sequence of atoms: an atom is a word (a maximal run of    *)
(* the characters [A-Za-z0-9_]) or one other character.  The strings of    *)
(* the model hold no double quote, backslash or control character, so      *)
(* JSON.stringify escapes nothing.  A value is a string, Str(s), or an     *)
(* object, Obj(o), with o the sequence of its <<key, value>> members in    *)
(* insertion order.                                                        *)
(***************************************************************************)
NonWord == {" ", ",", "-", "+", "$", ".", "{", "}", ":", "\""}

IsWord(a) == a \notin NonWord

Str(s) == [s |-> s]

Obj(o) == [o |-> o]

Undefined == [u |-> TRUE]

IsStr(v) == "s" \in DOMAIN v

IsObj(v) == "o" \in DOMAIN v

HasKey(o, k) == \E i \in 1..Len(o) : o[i][1] = k

\* obj[k]
Get(o, k) ==
    IF HasKey(o, k) THEN o[CHOOSE i \in 1..Len(o) : o[i][1] = k][2] ELSE Undefined

\* obj[k] = v
Put(o, k, v) ==
    IF HasKey(o, k)
    THEN [o EXCEPT ![CHOOSE i \in 1..Len(o) : o[i][1] = k] = <<k, v>>]
    ELSE Append(o, <<k, v>>)

\* line 225
removeFields == {<<"select">>, <<"sort">>, <<"page">>, <<"limit">>}

\* lines 222-229: the copy of req.query without the removed fields
copyWithoutRemoved(query) == SelectSeq(query, LAMBDA m : m[1] \notin removeFields)

\* line 232: JSON.stringify
RECURSIVE stringify(_), stringifyMembers(_, _)
stringify(v) ==
    IF IsStr(v)
    THEN <<"\"">> \o v.s \o <<"\"">>
    ELSE <<"{">> \o stringifyMembers(v.o, 1) \o <<"}">>

stringifyMembers(o, i) ==
    IF i > Len(o) THEN <<>>
    ELSE (IF i > 1 THEN <<",">> ELSE <<>>)
         \o <<"\"">> \o o[i][1] \o <<"\"", ":">> \o stringify(o[i][2])
         \o stringifyMembers(o, i + 1)

\* line 236: the words of /\b(gt|gte|lt|lte|in)\b/
Operators == {"gt", "gte", "lt", "lte", "in"}

\* the pattern matches at atom i: one of the words, a word boundary on
\* either side
matchAt(t, i) ==
    /\ t[i] \in Operators
    /\ i = 1 \/ ~IsWord(t[i - 1])
    /\ i = Len(t) \/ ~IsWord(t[i + 1])

RECURSIVE replaceFrom(_, _)
replaceFrom(t, i) ==
    IF i > Len(t) THEN <<>>
    ELSE (IF matchAt(t, i) THEN <<"$", t[i]>> ELSE <<t[i]>>) \o replaceFrom(t, i + 1)

\* line 236: queryStr.replace(/\b(gt|gte|lt|lte|in)\b/g, match => `$${match}`)
replaceOperators(t) == replaceFrom(t, 1)

\* line 239: JSON.parse; a repeated key keeps its place and takes the last value
RECURSIVE closingQuote(_, _)
closingQuote(t, i) == IF t[i] = "\"" THEN i ELSE closingQuote(t, i + 1)

parseString(t, i) ==
    LET j == closingQuote(t, i + 1)
    IN [v |-> SubSeq(t, i + 1, j - 1), n |-> j + 1]

RECURSIVE parseValue(_, _), parseMembers(_, _, _)
parseValue(t, i) ==
    IF t[i] = "\""
    THEN LET r == parseString(t, i) IN [v |-> Str(r.v), n |-> r.n]
    ELSE IF t[i + 1] = "}"
         THEN [v |-> Obj(<<>>), n |-> i + 2]
         ELSE parseMembers(t, i + 1, <<>>)

parseMembers(t, i, acc) ==
    LET k == parseString(t, i)
        val == parseValue(t, k.n + 1)
        acc2 == Put(acc, k.v, val.v)
    IN IF t[val.n] = ","
       THEN parseMembers(t, val.n + 1, acc2)
       ELSE [v |-> Obj(acc2), n |-> val.n + 1]

JSONparse(t) == parseValue(t, 1).v

\* lines 222-239: the predicate handed to Bootcamp.find
buildPredicate(query) ==
    JSONparse(replaceOperators(stringify(Obj(copyWithoutRemoved(query))))).o

\* lines 243, 249: s.split(',').join(' ')
splitJoin(s) == [i \in 1..Len(s) |-> IF s[i] = "," THEN " " ELSE s[i]]

\* if (req.query.select), if (req.query.sort): undefined and '' are falsy
Truthy(v) == IsObj(v) \/ (IsStr(v) /\ v.s # <<>>)

(***************************************************************************)
(* parseInt(v, 10) || d                                                    *)
(***************************************************************************)
DigitVal ==
    ("0" :> 0) @@ ("1" :> 1) @@ ("2" :> 2) @@ ("3" :> 3) @@ ("4" :> 4) @@
    ("5" :> 5) @@ ("6" :> 6) @@ ("7" :> 7) @@ ("8" :> 8) @@ ("9" :> 9)

NaN == [nan |-> TRUE, val |-> 0]

RECURSIVE skipSpace(_)
skipSpace(s) == IF s # <<>> /\ Head(s) = " " THEN skipSpace(Tail(s)) ELSE s

RECURSIVE digits(_, _, _)
digits(s, acc, any) ==
    IF s # <<>> /\ Head(s) \in DOMAIN DigitVal
    THEN digits(Tail(s), acc * 10 + DigitVal[Head(s)], TRUE)
    ELSE [nan |-> ~any, val |-> acc]

\* parseInt of a string of one-character atoms: leading blanks, a sign, the
\* longest run of digits; NaN without a digit.  undefined and an object
\* convert to strings that start with no digit
parseInt(v) ==
    IF ~IsStr(v) THEN NaN
    ELSE LET s == skipSpace(v.s)
             signed == s # <<>> /\ Head(s) \in {"-", "+"}
             d == digits(IF signed THEN Tail(s) ELSE s, 0, FALSE)
         IN IF d.nan THEN NaN
            ELSE [nan |-> FALSE, val |-> IF signed /\ Head(s) = "-" THEN -d.val ELSE d.val]

\* n || d: NaN and 0 are falsy
orDefault(n, d) == IF n.nan \/ n.val = 0 THEN d ELSE n.val

\* lines 257-260
pageOf(query) == orDefault(parseInt(Get(query, <<"page">>)), 1)

limitOf(query) == orDefault(parseInt(Get(query, <<"limit">>)), 25)

startIndexOf(page, limit) == (page - 1) * limit

endIndexOf(page, limit) == page * limit

\* the next field with an inclusive comparison
paginationNextInclusive(page, limit, endIndex, total) ==
    IF endIndex <= total THEN {[page |-> page + 1, limit |-> limit]} ELSE {}

\* lines 270-284: the envelope; an absent field is the empty set
paginationNext(page, limit, endIndex, total) ==
    IF endIndex < total THEN {[page |-> page + 1, limit |-> limit]} ELSE {}

paginationPrev(page, limit, startIndex) ==
    IF startIndex > 0 THEN {[page |-> page - 1, limit |-> limit]} ELSE {}

(***************************************************************************)
(* The store's side of a query                                             *)
(***************************************************************************)
\* the paths of the Bootcamp schema a filter of the model can name
Schema == (<<"name">> :> "String") @@ (<<"averageCost">> :> "Number")

\* casting a string to Number
NumOf == ("5" :> 5) @@ ("10" :> 10) @@ ("2" :> 2)

Castable(type, s) == type = "String" \/ (Len(s) = 1 /\ s[1] \in DOMAIN NumOf)

\* binary order of the strings of the model, by their first differing atom
Rank ==
    (" " :> 0) @@ ("$" :> 1) @@ ("10" :> 2) @@ ("2" :> 3) @@ ("5" :> 4) @@
    ("foo" :> 5) @@ ("gte" :> 6) @@ ("in" :> 7) @@ ("lt" :> 8) @@ ("x" :> 9)

RECURSIVE strLess(_, _)
strLess(a, b) ==
    IF b = <<>> THEN FALSE
    ELSE IF a = <<>> THEN TRUE
    ELSE IF Head(a) = Head(b) THEN strLess(Tail(a), Tail(b))
    ELSE Rank[Head(a)] < Rank[Head(b)]

Less(type, a, b) == IF type = "Number" THEN NumOf[a[1]] < NumOf[b[1]] ELSE strLess(a, b)

Same(type, a, b) == IF type = "Number" THEN NumOf[a[1]] = NumOf[b[1]] ELSE a = b

\* the document's value at a path, as a string
FieldOf(doc, path) ==
    IF path = <<"name">> THEN <<doc.name>>
    ELSE IF doc.averageCost = 5 THEN <<"5">> ELSE <<"10">>

IsOperatorKey(k) == Len(k) = 2 /\ k[1] = "$" /\ k[2] \in Operators

Compare(type, op, x, y) ==
    CASE op = "gt" -> Less(type, y, x)
      [] op = "gte" -> ~Less(type, x, y)
      [] op = "lt" -> Less(type, x, y)
      [] op = "lte" -> ~Less(type, y, x)
      [] op = "in" -> Same(type, x, y)

\* the query is rejected: an operator as a top-level key, a condition that
\* cannot be cast to the path's type
conditionFails(type, v) ==
    IF IsStr(v) THEN ~Castable(type, v.s)
    ELSE \E i \in 1..Len(v.o) :
           \/ ~IsOperatorKey(v.o[i][1])
           \/ ~IsStr(v.o[i][2])
           \/ ~Castable(type, v.o[i][2].s)

queryFails(predicate) ==
    \E i \in 1..Len(predicate) :
       LET k == predicate[i][1] IN
       \/ k # <<>> /\ k[1] = "$"
       \/ k \in DOMAIN Schema /\ conditionFails(Schema[k], predicate[i][2])

conditionHolds(doc, path, v) ==
    LET type == Schema[path]
        x == FieldOf(doc, path)
    IN IF IsStr(v) THEN Same(type, x, v.s)
       ELSE \A i \in 1..Len(v.o) : Compare(type, v.o[i][1][2], x, v.o[i][2].s)

\* a document satisfies a predicate the store accepts
Matches(doc, predicate) ==
    \A i \in 1..Len(predicate) :
       /\ predicate[i][1] \in DOMAIN Schema
       /\ conditionHolds(doc, predicate[i][1], predicate[i][2])

\* Bootcamp.countDocuments(), line 261: no filter is passed
countDocuments == Cardinality(DOMAIN store)

\* the number of documents of Bootcamp.find(predicate).skip(s).limit(l); a
\* negative limit is taken by the store as its magnitude
Abs(n) == IF n < 0 THEN -n ELSE n

Min(a, b) == IF a < b THEN a ELSE b

findCount(predicate, skip, limit) ==
    LET matched == Cardinality({i \in DOMAIN store : Matches(store[i], predicate)})
    IN IF matched <= skip THEN 0 ELSE Min(Abs(limit), matched - skip)

(***************************************************************************)
(* The listing request                                                     *)
(***************************************************************************)
ListIdle ==
    [pc |-> "off", query |-> <<>>, predicate |-> <<>>, fields |-> <<>>,
     sortBy |-> <<>>, page |-> 0, limit |-> 0, startIndex |-> 0, endIndex |-> 0,
     total |-> 0, status |-> 0, count |-> 0, next |-> {}, prev |-> {}]

\* lines 219-260, up to await Bootcamp.countDocuments()
getBootcampsTranslate ==
    /\ lst.pc = "request"
    /\ LET query == lst.query
           select == Get(query, <<"select">>)
           sort == Get(query, <<"sort">>)
           page == pageOf(query)
           limit == limitOf(query)
       IN IF (Truthy(select) /\ IsObj(select)) \/ (Truthy(sort) /\ IsObj(sort))
          \* .split is no function of an object
          THEN lst' = [lst EXCEPT !.predicate = buildPredicate(query),
                                  !.status = errorHandler(TypeError), !.pc = "done"]
          ELSE lst' = [lst EXCEPT
                         !.predicate = buildPredicate(query),
                         !.fields = IF Truthy(select) THEN splitJoin(select.s) ELSE <<>>,
                         !.sortBy = IF Truthy(sort) THEN splitJoin(sort.s)
                                    ELSE <<"-", "createdAt">>,
                         !.page = page,
                         !.limit = limit,
                         !.startIndex = startIndexOf(page, limit),
                         !.endIndex = endIndexOf(page, limit),
                         !.pc = "countDocuments"]
    /\ UNCHANGED <<store, nextId, reqs, disk, server, started>>

\* resumption after await Bootcamp.countDocuments() (line 261), up to await query
getBootcampsCount ==
    /\ lst.pc = "countDocuments"
    /\ \E ok \in BOOLEAN :
         IF ~ok
         THEN lst' = [lst EXCEPT !.status = errorHandler(StoreError), !.pc = "done"]
         ELSE lst' = [lst EXCEPT !.total = countDocuments, !.pc = "query"]
    /\ UNCHANGED <<store, nextId, reqs, disk, server, started>>

\* resumption after await query (line 266), to the response
getBootcampsRespond ==
    /\ lst.pc = "query"
    /\ \E ok \in BOOLEAN :
         IF ~ok \/ queryFails(lst.predicate) \/ lst.startIndex < 0
         THEN lst' = [lst EXCEPT !.status = errorHandler(StoreError), !.pc = "done"]
         ELSE lst' = [lst EXCEPT
                        !.count = findCount(lst.predicate, lst.startIndex, lst.limit),
                        !.next = paginationNext(lst.page, lst.limit, lst.endIndex, lst.total),
                        !.prev = paginationPrev(lst.page, lst.limit, lst.startIndex),
                        !.status = 200,
                        !.pc = "done"]
    /\ UNCHANGED <<store, nextId, reqs, disk, server, started>>

(***************************************************************************)
(* Inputs of the listing request                                           *)
(***************************************************************************)
\* length of a raw page or limit parameter, in characters
MaxLen == 2
\* filter parameters of one request
MaxParams == 1
\* length of a literal filter value, in atoms
MaxAtoms == 2
\* documents in the store of a listing request
MaxDocs == 3

StringsOver(A, n) == UNION {[1..k -> A] : k \in 0..n}

NumChars == {"-", "0", "2", "a"}

RawNums == StringsOver(NumChars, MaxLen)

\* no parameter, or the parameter k with a value of S
Optional(k, S) == {<<>>} \cup {<< <<k, Str(s)>> >> : s \in S}

ValueAtoms == {"x", "in", "gte", "5", " "}

\* literal values: words are maximal, so no two are adjacent
Literals ==
    {s \in StringsOver(ValueAtoms, MaxAtoms) :
        \A i \in 1..(Len(s) - 1) : ~(IsWord(s[i]) /\ IsWord(s[i + 1]))}

NestedKeys == {<<"gte">>, <<"lt">>, <<"in">>, <<"foo">>}

\* field[key]=value
Nested == {Obj(<< <<k, Str(<<w>>)>> >>) : k \in NestedKeys, w \in {"5", "x", "in"}}

FilterKeys == {<<"name">>, <<"averageCost">>, <<"in">>}

Values == {Str(s) : s \in Literals} \cup Nested

Filters ==
    {f \in UNION {[1..k -> FilterKeys \X Values] : k \in 0..MaxParams} :
        \A i, j \in 1..Len(f) : i # j => f[i][1] # f[j][1]}

FewFilters == {<<>>, << <<(<<"name">>), Str(<<"x">>)>> >>}

FewReserved ==
    {r \o p : r \in {<<>>, << <<(<<"select">>), Str(<<"name", ",", "photo">>)>>,
                              <<(<<"sort">>), Str(<<"-", "name">>)>> >>},
              p \in Optional(<<"page">>, {<<"2">>})}

\* req.query: every raw page and limit with a few filters, and every
\* filter with a few reserved parameters
Queries ==
    {p \o l \o f : p \in Optional(<<"page">>, RawNums),
                   l \in Optional(<<"limit">>, RawNums), f \in FewFilters}
    \cup {f \o r : f \in Filters, r \in FewReserved}

Doc(i) ==
    [user |-> "u1", name |-> IF i % 2 = 1 THEN "x" ELSE "in",
     averageCost |-> IF i = 1 THEN 5 ELSE 10, photo |-> DefaultPhoto]

(***************************************************************************)
(* Specifications                                                          *)
(***************************************************************************)
Init ==
    /\ store = <<>>
    /\ nextId = 1
    /\ reqs = [r \in Slots |-> IdleReq]
    /\ disk = {}
    /\ server = "listening"
    /\ started = 0
    /\ lst = ListIdle

Next ==
    \/ \E r \in Slots : StartGet(r)
    \/ \E r \in Slots : StartCreate(r)
    \/ \E r \in Slots : StartUpdate(r)
    \/ \E r \in Slots : StartDelete(r)
    \/ \E r \in Slots : StartPhoto(r)
    \/ \E r \in Slots : getBootcamp(r)
    \/ \E r \in Slots : createBootcampCheck(r)
    \/ \E r \in Slots : createBootcamp(r)
    \/ \E r \in Slots : updateBootcampGate(r)
    \/ \E r \in Slots : updateBootcamp(r)
    \/ \E r \in Slots : deleteBootcampGate(r)
    \/ \E r \in Slots : deleteBootcampRemove(r)
    \/ \E r \in Slots : bootcampPhotoUploadChecks(r)
    \/ \E r \in Slots : bootcampPhotoUploadMv(r)
    \/ \E r \in Slots : bootcampPhotoUploadSave(r)
    \/ \E r \in Slots : ClientTimeout(r)
    \/ Exit

Spec == Init /\ [][Next]_vars

\* one listing request over a store of n documents
InitList ==
    /\ \E n \in 0..MaxDocs :
         /\ store = [i \in 1..n |-> Doc(i)]
         /\ nextId = n + 1
    /\ reqs = [r \in Slots |-> IdleReq]
    /\ disk = {}
    /\ server = "listening"
    /\ started = 0
    /\ \E query \in Queries : lst = [ListIdle EXCEPT !.pc = "request", !.query = query]

NextList ==
    \/ getBootcampsTranslate
    \/ getBootcampsCount
    \/ getBootcampsRespond

SpecList == InitList /\ [][NextList]_vars

(***************************************************************************)
(* Properties, part 1                                                      *)
(***************************************************************************)
Authorized(u, owner) == u = owner \/ role(u) = "admin"

\* C1: in updateBootcamp, deleteBootcamp and bootcampPhotoUpload on an
\* existing bootcamp the gate denies the request exactly when the requester
\* is neither the owner nor an admin; a denied request ends in 401 and
\* writes nothing
C1_GateIsOwnerOrAdmin ==
    \A r \in Slots :
       LET q == reqs[r] IN
       (q.op \in {"update", "delete", "photo"} /\ q.bootcamp.st = "doc") =>
          /\ q.authz = "denied" <=> ~Authorized(q.user, q.bootcamp.user)
          /\ q.authz = "denied" => (q.status = 401 /\ ~q.wrote)

\* C7: no request makes the process leave the listening state: the
\* unhandledRejection handler never runs
C7_ProcessKeepsListening == server = "listening"

\* C8: when the lookup of getBootcamp, updateBootcamp, deleteBootcamp or
\* bootcampPhotoUpload finds no bootcamp, the request ends in 404 with no
\* ownership check, no store write and no file move
C8_MissingBootcampIs404 ==
    \A r \in Slots :
       LET q == reqs[r] IN
       (q.op \in {"get", "update", "delete", "photo"} /\ q.bootcamp.st = "null") =>
          /\ q.pc = "done" /\ q.status = 404
          /\ q.authz = "unset" /\ ~q.wrote /\ ~q.mvCalled

\* the three rejected uploads: no file, no image, too large
BadUpload(f) ==
    \/ f.kind = "null"
    \/ f.kind = "file" /\ (f.mimetype[1] # "image" \/ f.size > MAX_UPLOAD)

\* C9 as stated: a photo upload on an existing bootcamp with a rejected file
\* ends in 400
C9_BadUploadIs400 ==
    \A r \in Slots :
       LET q == reqs[r] IN
       (q.op = "photo" /\ q.pc = "done" /\ q.bootcamp.st = "doc" /\ BadUpload(q.files))
          => q.status = 400

\* C9 amended: a photo upload with a rejected file never moves a file, never
\* writes the photo field and never succeeds; it ends in 400 when the
\* requester passed the ownership gate (a requester who did not gets 401);
\* and a file is moved only for an existing bootcamp, after the gate and the
\* three checks have passed, under the name photo_<id><ext>
C9_BadUploadNeverMoves ==
    \A r \in Slots :
       LET q == reqs[r] IN
       (q.op = "photo" /\ q.pc # "findById") =>
          /\ BadUpload(q.files) =>
                (~q.mvCalled /\ ~q.wrote /\ q.pc = "done" /\ q.status # 200)
          /\ (BadUpload(q.files) /\ q.authz = "granted") => q.status = 400
          /\ (BadUpload(q.files) /\ q.authz = "denied") => q.status = 401
          /\ q.mvCalled =>
                /\ q.bootcamp.st = "doc" /\ q.authz = "granted"
                /\ q.files.kind = "file" /\ ~BadUpload(q.files)
                /\ q.fileName = <<"photo_", q.id, q.files.ext>>
          /\ q.wrote => q.mvCalled

C9_Witness ==
    \E r \in Slots :
       LET q == reqs[r] IN
       /\ q.op = "photo" /\ q.pc = "done" /\ q.authz = "granted"
       /\ q.files.kind = "file" /\ q.files.size > MAX_UPLOAD
       /\ q.status = 400 /\ ~q.mvCalled
       /\ \E r2 \in Slots : reqs[r2].op = "photo" /\ reqs[r2].wrote

\* C10: every user who is no admin owns at most one bootcamp
C10_AtMostOneBootcamp ==
    \A u \in Users :
       role(u) # "admin" =>
          Cardinality({i \in DOMAIN store : store[i].user = u}) <= 1

(***************************************************************************)
(* Properties, part 2                                                      *)
(***************************************************************************)
ListTranslated == lst.pc \in {"countDocuments", "query"} \/ (lst.pc = "done" /\ lst.status = 200)

\* C2: the effective page and limit are strictly positive and the skip is
\* never negative
C2_PositivePageAndLimit ==
    ListTranslated => (lst.page >= 1 /\ lst.limit >= 1 /\ lst.startIndex >= 0)

\* the translation the filter parameters are meant to have: a literal is an
\* equality on itself, a nested operator key takes the store's sigil
IntendedMember(m) ==
    <<IF m[1] \in {<<op>> : op \in Operators} THEN <<"$">> \o m[1] ELSE m[1], m[2]>>

IntendedValue(v) ==
    IF IsStr(v) THEN v ELSE Obj([i \in 1..Len(v.o) |-> IntendedMember(v.o[i])])

IntendedPredicate(query) ==
    LET f == SelectSeq(query, LAMBDA m : m[1] \notin removeFields)
    IN [i \in 1..Len(f) |-> <<f[i][1], IntendedValue(f[i][2])>>]

\* C3: the total of the envelope is the number of documents that satisfy the
\* predicate of the listing query
C3_TotalCountsMatches ==
    (lst.pc = "query" /\ lst.predicate = IntendedPredicate(lst.query)
        /\ ~queryFails(lst.predicate))
       => lst.total = Cardinality({i \in DOMAIN store : Matches(store[i], lst.predicate)})

\* C4: for page >= 1 and limit >= 1 the envelope has a next field exactly
\* when page * limit < total, and then next is {page + 1, limit}
C4_NextIffMoreRecords ==
    (lst.pc = "done" /\ lst.status = 200 /\ lst.page >= 1 /\ lst.limit >= 1) =>
       /\ lst.next # {} <=> lst.page * lst.limit < lst.total
       /\ lst.next \subseteq {[page |-> lst.page + 1, limit |-> lst.limit]}

C4_Witness ==
    /\ lst.pc = "done" /\ lst.status = 200 /\ lst.page >= 1 /\ lst.limit >= 1
    /\ lst.limit < 25
    /\ lst.next = {[page |-> lst.page + 1, limit |-> lst.limit]}

\* C5: the envelope has a prev field exactly when page > 1, and then prev is
\* {page - 1, limit}
C5_PrevIffPastFirstPage ==
    (lst.pc = "done" /\ lst.status = 200) =>
       /\ lst.prev # {} <=> lst.page > 1
       /\ lst.prev \subseteq {[page |-> lst.page - 1, limit |-> lst.limit]}

\* C6: the predicate is the intended translation of the filter parameters:
\* literals and field names unchanged, nested operator keys given the
\* store's sigil, no reserved key
C6_PredicateIsIntended ==
    lst.pc # "request" => lst.predicate = IntendedPredicate(lst.query)

====
